---- MODULE Spec2Model ----
(***************************************************************************)
(* The GitHub issue extraction pipelines of agent-evals:                   *)
(*   archive/fetch_gh_data/fetch_issues.py   (variant "archive")           *)
(*   src/fetch_gh_data/fetch_issues.py       (variant "src")               *)
(*   src/fetch_gh_data_3/fetch_issues.py     (variant "v3")                *)
(*   archive/fetch_gh_data/temp_get_event_data.py                          *)
(*                                           (variant "timelines_only")    *)
(* A main thread paginates the issue listing, then fans out one task per   *)
(* issue for its comments (and, in "archive", its timeline), merges the    *)
(* results in submission order and writes the CSV artifacts.               *)
(***************************************************************************)
EXTENDS Integers, Sequences, FiniteSets, TLC

VARIABLES
    variant,        \* which of the source files runs
    limit,          \* parameter limit
    max_pages,      \* parameter max_pages
    exclude_pulls,  \* parameter exclude_pulls ("v3" only)
    pc,             \* position of the main thread
    error,          \* the exception that ended the run, "none" otherwise
    page,           \* loop variable of the pagination loop
    collected,      \* local list collected / all_issues
    page_fut,       \* the future of the page task awaited by the main thread
    page_log,       \* history: length of each raw page received
    page_reqs,      \* history: number of page tasks submitted
    issues,         \* list returned by fetch_many_issues
    frames,         \* the DataFrames issues_df, comments_df, timeline_df
    tasks,          \* per fan-out: the task runs handed to the task runner
    futures,        \* per fan-out: local list futures (issue number per entry)
    cursor,         \* position of the running for loop
    merged,         \* local list comments / events being accumulated
    failures,       \* log.error records: <<kind, index>>
    files,          \* the CSV artifacts on disk
    backend,        \* the GitHub API: live, or a mock with canned responses
    token,          \* parameter token of the orchestration flow
    env_token,      \* the environment variable GITHUB_TOKEN
    repository,     \* parameter repository, a sequence of characters
    sent,           \* history: the headers of the requests sent, per endpoint
    paths,          \* history: the path each artifact was written to
    prev,           \* the tables of the previous run of the flow, if any
    attempts,       \* history: the HTTP attempts made, when they are counted
    raw_item,       \* the raw item handed to a DataFrame helper
    norm,           \* the outcome of the helper on raw_item
    client,         \* GitHubClient.fetch_pr_issue_data: its locals and histories
    endpoint,       \* POST /github/extract: position, records, response
    db,             \* the committed rows of the tables datasets and pr_issues
    mapper          \* fetch_pr_issue_mapping: its parameter, locals and histories

\* The inputs of a run, its histories, and the state of the other components.
runIn == <<backend, token, env_token, repository>>
runEnv == <<runIn, sent, paths, prev, attempts>>
helperVars == <<raw_item, norm>>
serviceVars == <<client, endpoint, db>>
others == <<helperVars, serviceVars, mapper>>
pipeVars == <<variant, limit, max_pages, exclude_pulls, pc, error, page, collected,
              page_fut, page_log, page_reqs, issues, frames, tasks, futures,
              cursor, merged, failures, files>>

vars == <<pipeVars, runEnv, others>>

(***************************************************************************)
(* Bounds of the model.                                                    *)
(***************************************************************************)
MaxLimit == 2
MaxPages == 2
MaxBatch == 2
MaxOver == 1
MaxFanout == 4
MaxGqlPages == 2
MaxPrs == 2

(***************************************************************************)
(* Program constants.                                                      *)
(***************************************************************************)
PerPageCap == 100
MaxWorkers == 3
ArchiveRetries == 4
SrcRetries == 3

Min(a, b) == IF a < b THEN a ELSE b
Max(a, b) == IF a < b THEN b ELSE a

Variants == {"archive", "src", "v3"}
Kinds == {"comments", "timeline"}

(***************************************************************************)
(* Raw JSON objects.  A dict is the set of its keys plus the values the    *)
(* pipeline reads; an absent key has the value 0 in the record.            *)
(***************************************************************************)
LinkKeys == {"url", "comments_url", "timeline_url"}
\* The other keys of an issue object that a helper subscripts.
ListedKeys == {"title", "state", "created_at", "updated_at", "comments", "user", "html_url"}
Issue(n) == [keys |-> {"number"} \cup LinkKeys \cup ListedKeys, number |-> n]
PullRequest(n) ==
    [keys |-> {"number", "pull_request"} \cup LinkKeys \cup ListedKeys, number |-> n]
NoNumber == [keys |-> LinkKeys, number |-> 0]
Bare(n) == [keys |-> {"number"}, number |-> n]

RawItems == {Issue(1), Issue(2), PullRequest(3), NoNumber, Bare(1)}

\* A raw comment / timeline event: its id and, possibly, an issue_number of its own.
Entry(id, keys, num) == [id |-> id, keys |-> keys, issue_number |-> num]
ItemBodies == { <<>>,
                << Entry(1, {"id"}, 0), Entry(2, {"id", "issue_number"}, 7) >> }

SmallPages == UNION {[1..n -> RawItems] : n \in 0..MaxBatch}
FullPage(first, prs) ==
    [i \in 1..PerPageCap |->
        IF i <= prs THEN PullRequest(first + i - 1) ELSE Issue(first + i - 1)]
\* What the listing endpoint may answer to a request for page p of size per_page.
PageBodies(per_page, p) ==
    SmallPages \cup
    (IF per_page = PerPageCap
        THEN {FullPage(first, prs) : first \in {(p - 1) * PerPageCap, (p - 1) * PerPageCap + 1},
                                     prs \in {0, 1}}
        ELSE {})

(***************************************************************************)
(* One HTTP exchange and the task body around it.                          *)
(***************************************************************************)
HttpStatuses == {200, 300, 304, 404, 500}
\* The statuses whose answer can carry a body: the answer to 304 has none,
\* so resp.json() raises on it.  A 3xx answer without a Location header
\* (300 here) is not followed and is handed to the task with its body.
BodyStatuses == HttpStatuses \ {304}
Responses(bodies) ==
    {[conn |-> FALSE, status |-> 0, parses |-> FALSE, body |-> <<>>]} \cup
    {[conn |-> TRUE, status |-> s, parses |-> FALSE, body |-> <<>>] : s \in HttpStatuses} \cup
    {[conn |-> TRUE, status |-> s, parses |-> TRUE, body |-> b] : s \in BodyStatuses, b \in bodies}

\* requests.get raises, raise_for_status raises on 4xx/5xx, resp.json() raises.
TaskRaises(resp) ==
    \/ ~resp.conn
    \/ (400 <= resp.status /\ resp.status < 600)
    \/ ~resp.parses

Retries(v) == IF v \in {"archive", "timelines_only"} THEN ArchiveRetries ELSE SrcRetries

\* A task run: its state, the retries it has used so far while it runs (the
\* engine's counter, gone with the run), and the value of its future.
\* status is the status code of the response the task returned from.
NoTask == [state |-> "none", retried |-> 0, status |-> 0, result |-> <<>>]
NewTask(st) == [state |-> st, retried |-> 0, status |-> 0, result |-> <<>>]

\* Variant of TaskStep that retries once more than the decorator allows.
TaskStepOffByOne(t, resp, r) ==
    IF ~TaskRaises(resp)
        THEN [state |-> "completed", retried |-> 0, status |-> resp.status,
              result |-> resp.body]
        ELSE IF t.retried <= r
            THEN [t EXCEPT !.retried = @ + 1]
            ELSE [state |-> "failed", retried |-> 0, status |-> 0, result |-> <<>>]

\* One run of the task function under @task(retries=r): a return completes the
\* task, an exception is retried while retries are left and fails it otherwise.
TaskStep(t, resp, r) ==
    IF ~TaskRaises(resp)
        THEN [state |-> "completed", retried |-> 0, status |-> resp.status,
              result |-> resp.body]
        ELSE IF t.retried < r
            THEN [t EXCEPT !.retried = @ + 1]
            ELSE [state |-> "failed", retried |-> 0, status |-> 0, result |-> <<>>]

(***************************************************************************)
(* The GitHub API behind requests.get: the live service, which may answer  *)
(* anything, or a mock that answers every request for the same URL with    *)
(* the same canned response (listing for page 1, later for the pages after *)
(* it); a flaky mock may answer any request with a server error instead.   *)
(***************************************************************************)
LiveBackend ==
    [live |-> TRUE, flaky |-> FALSE, listing |-> <<>>, later |-> <<>>, items |-> <<>>]

Ok(body) == [conn |-> TRUE, status |-> 200, parses |-> TRUE, body |-> body]
ServerError == [conn |-> TRUE, status |-> 500, parses |-> FALSE, body |-> <<>>]

\* The answers to GET <base_url>?...&page=p.
PageAnswers(b, per_page, p) ==
    IF b.live THEN Responses(PageBodies(per_page, p))
              ELSE {IF p = 1 THEN b.listing ELSE b.later}
                   \cup (IF b.flaky THEN {ServerError} ELSE {})

\* The answers to GET <comments_url> / <timeline_url> of issue num.
ItemAnswers(b, kind, num) ==
    IF b.live THEN Responses(ItemBodies)
              ELSE {b.items[kind][num]} \cup (IF b.flaky THEN {ServerError} ELSE {})

(***************************************************************************)
(* The token and the request headers.  An Optional[str] is <<>> for None   *)
(* and <<s>> for the string s; an unset environment variable is <<>>.      *)
(***************************************************************************)
Truthy(s) == IF Len(s) = 0 THEN FALSE ELSE s[1] # ""

\* os.getenv(name, default)
Getenv(env, default) == IF Len(env) = 0 THEN <<default>> ELSE env

\* Variant of EffectiveToken that never looks at the environment.
EffectiveTokenNoEnv(tok, env) == tok

\* token = token or os.getenv("GITHUB_TOKEN", "")
EffectiveToken(tok, env) == IF Truthy(tok) THEN tok ELSE Getenv(env, "")

AcceptOf(ep) ==
    IF ep = "timeline" THEN "application/vnd.github+json"
                             ELSE "application/vnd.github.v3+json"

\* headers = {"Accept": ...}; if token: headers["Authorization"] = f"token {token}"
\* An absent header is <<>>.
Headers(ep, tok) ==
    [Accept |-> <<AcceptOf(ep)>>,
     Authorization |-> IF Truthy(tok) THEN <<"token", tok[1]>> ELSE <<>>]

\* The count of HTTP attempts: <<>> in a run that does not count them, else
\* one record with the attempts on the listing and on the per-item endpoints.
NoAttempts == <<[listing |-> 0, items |-> 0]>>
Counted(a, what) == IF a = <<>> THEN a ELSE <<[a[1] EXCEPT ![what] = @ + 1]>>

\* The request the task of an endpoint sends under the token of this run.
Request(ep) ==
    [endpoint |-> ep,
     headers |-> Headers(ep, EffectiveToken(token, env_token))]

(***************************************************************************)
(* fetch_many_issues / fetch_issues: the pagination loop.                  *)
(***************************************************************************)
PerPage(l) == Min(l, PerPageCap)

\* Python's s[:n]
SliceTo(s, n) ==
    IF n >= 0 THEN SubSeq(s, 1, Min(n, Len(s)))
              ELSE SubSeq(s, 1, Max(0, Len(s) + n))

\* Variant of Truncate that returns the whole collected list.
TruncateNone(c, l) == c

Truncate(c, l) == SliceTo(c, l)

\* Variant of FilterPulls that keeps every item.
FilterPullsNone(batch) == batch

FilterPulls(batch) == SelectSeq(batch, LAMBDA i : "pull_request" \notin i.keys)

\* The batch kept from a raw page.
KeptBatch(v, ex, raw) == IF v = "v3" /\ ~ex THEN raw ELSE FilterPulls(raw)

\* The count compared with per_page: len(batch) after the filter, or
\* original_count in fetch_gh_data_3.
CountForLastPage(v, ex, raw) == IF v = "v3" THEN Len(raw) ELSE Len(KeptBatch(v, ex, raw))

\* Variant of LastPage that never recognises a short page.
LastPageNever(count, per_page) == FALSE

LastPage(count, per_page) == count < per_page

\* Variant of PageFailurePc that swallows the failure and returns what was collected.
PageFailureSwallowed == "fmi_return"

\* Where the main thread goes when page_issues.result() raises: nothing catches it.
PageFailurePc == "aborted"

\* Variant of NextPage that leaves out every second page.
NextPageSkip(p) == p + 2

\* for page in range(1, max_pages + 1): the value of page in the next iteration.
NextPage(p) == p + 1

FetchManyIssuesLoop ==
    /\ pc = "fmi_loop"
    /\ IF page > max_pages \/ Len(collected) >= limit
          THEN /\ pc' = "fmi_return"
               /\ UNCHANGED <<page_fut, page_reqs>>
          ELSE /\ pc' = "fmi_wait"
               /\ page_fut' = NewTask("running")
               /\ page_reqs' = page_reqs + 1
    /\ UNCHANGED <<others, runEnv, variant, limit, max_pages, exclude_pulls, error, page, collected,
                   page_log, issues, frames, tasks, futures, cursor, merged,
                   failures, files>>

FetchIssuePageAttempt ==
    /\ pc = "fmi_wait"
    /\ page_fut.state = "running"
    /\ \E resp \in PageAnswers(backend, PerPage(limit), page) :
          page_fut' = TaskStep(page_fut, resp, Retries(variant))
    /\ sent' = sent \cup {Request("issues")}
    /\ attempts' = Counted(attempts, "listing")
    /\ UNCHANGED <<others, runIn, paths, prev, variant, limit, max_pages, exclude_pulls, pc, error, page, collected,
                   page_log, page_reqs, issues, frames, tasks, futures, cursor,
                   merged, failures, files>>

FetchManyIssuesBatch ==
    /\ pc = "fmi_wait"
    /\ page_fut.state = "completed"
    /\ LET raw == page_fut.result
           batch == KeptBatch(variant, exclude_pulls, raw)
           count == CountForLastPage(variant, exclude_pulls, raw)
       IN  /\ page_log' = Append(page_log, Len(raw))
           /\ IF raw = <<>>
                 THEN /\ pc' = "fmi_return"
                      /\ UNCHANGED <<collected, page>>
                 ELSE /\ collected' = collected \o batch
                      /\ IF LastPage(count, PerPage(limit))
                            THEN pc' = "fmi_return" /\ UNCHANGED page
                            ELSE pc' = "fmi_loop" /\ page' = NextPage(page)
    /\ UNCHANGED <<others, runEnv, variant, limit, max_pages, exclude_pulls, error, page_fut,
                   page_reqs, issues, frames, tasks, futures, cursor, merged,
                   failures, files>>

FetchManyIssuesRaise ==
    /\ pc = "fmi_wait"
    /\ page_fut.state = "failed"
    /\ pc' = PageFailurePc
    /\ error' = IF PageFailurePc = "aborted" THEN "page_fetch_failed" ELSE error
    /\ UNCHANGED <<others, runEnv, variant, limit, max_pages, exclude_pulls, page, collected, page_fut,
                   page_log, page_reqs, issues, frames, tasks, futures, cursor,
                   merged, failures, files>>

FetchManyIssuesReturn ==
    /\ pc = "fmi_return"
    /\ issues' = Truncate(collected, limit)
    /\ pc' = "fmi_done"
    /\ UNCHANGED <<others, runEnv, variant, limit, max_pages, exclude_pulls, error, page, collected,
                   page_fut, page_log, page_reqs, frames, tasks, futures, cursor,
                   merged, failures, files>>

(***************************************************************************)
(* The DataFrame helpers.  A value read with dict.get is <<v>> when the    *)
(* key is present and <<>> (None) when it is absent.                       *)
(***************************************************************************)
EmptyFrame == [columns |-> {}, rows |-> <<>>]

Get(d, key, val) == IF key \in d.keys THEN <<val>> ELSE <<>>

\* The keys of the row dicts in the order the helpers write them, which is
\* the order of the columns of the frame and of the header line of its CSV.
IssueHeader(v) ==
    <<"issue_number", "title", "state", "state_reason", "body", "created_at",
      "updated_at", "closed_at", IF v = "archive" THEN "n_comments" ELSE "comments",
      "labels", "user", "assignee", "author_association", "closed_by", "reactions",
      "timeline_url", "sub_issues_total", "sub_issues_completed",
      "sub_issues_percent_completed", "url">>

CommentHeader ==
    <<"comment_id", "issue_number", "user", "created_at", "updated_at",
      "author_association", "body", "reactions", "node_id", "issue_url",
      "performed_via_github_app", "url">>

TimelineHeader ==
    <<"event_id", "node_id", "issue_number", "event", "created_at", "actor",
      "commit_id", "commit_url", "label", "performed_via_github_app", "pull_number",
      "pull_url", "source_type", "url">>

IssueColumns(v) == {IssueHeader(v)[k] : k \in DOMAIN IssueHeader(v)}

CommentColumns == {CommentHeader[k] : k \in DOMAIN CommentHeader}

TimelineColumns == {TimelineHeader[k] : k \in DOMAIN TimelineHeader}

IssueRow(i) == [issue_number |-> Get(i, "number", i.number)]

EntryRow(c) == [id |-> Get(c, "id", c.id),
                issue_number |-> Get(c, "issue_number", c.issue_number)]

\* Variant of issues_to_dataframe that keeps the first row of each issue number.
issues_to_dataframe_dedup(v, is) ==
    LET First(n) == \A j \in 1..(n - 1) : is[j].number # is[n].number
        firsts == SelectSeq([n \in 1..Len(is) |-> n], First)
        uniq == [k \in 1..Len(firsts) |-> is[firsts[k]]]
    IN  IF is = <<>> THEN EmptyFrame
        ELSE [columns |-> IssueColumns(v),
              rows |-> [k \in 1..Len(uniq) |-> IssueRow(uniq[k])]]

issues_to_dataframe(v, is) ==
    IF is = <<>> THEN EmptyFrame
    ELSE [columns |-> IssueColumns(v), rows |-> [k \in 1..Len(is) |-> IssueRow(is[k])]]

\* comments_to_dataframe and timeline_to_dataframe
entries_to_dataframe(kind, es) ==
    IF es = <<>> THEN EmptyFrame
    ELSE [columns |-> IF kind = "comments" THEN CommentColumns ELSE TimelineColumns,
          rows |-> [k \in 1..Len(es) |-> EntryRow(es[k])]]

(***************************************************************************)
(* The columns the helpers read through a nested object.  The value of an  *)
(* optional nested field of a raw item is absent (no such key), null, the  *)
(* empty object {} or an object that has the inner key.                    *)
(***************************************************************************)
NestedStates == {"absent", "null", "empty", "object"}
Helpers == {"issues", "comments", "timeline"}

\* The value every inner key (login, total_count, name, ...) has in an object.
InnerValue == 5

Col(field, guarded, default) ==
    [field |-> field, guarded |-> guarded, default |-> default]

\* Per helper, column |-> the nested field it reads, whether the expression
\* ends with "if d.get(field) else default", and that default.
NestedColumns(fn) ==
    IF fn = "issues" THEN
        [user |-> Col("user", FALSE, <<>>),
         assignee |-> Col("assignee", TRUE, <<>>),
         closed_by |-> Col("closed_by", TRUE, <<>>),
         reactions |-> Col("reactions", TRUE, <<0>>),
         sub_issues_total |-> Col("sub_issues_summary", TRUE, <<0>>),
         sub_issues_completed |-> Col("sub_issues_summary", TRUE, <<0>>),
         sub_issues_percent_completed |-> Col("sub_issues_summary", TRUE, <<0>>)]
    ELSE IF fn = "comments" THEN
        [user |-> Col("user", FALSE, <<>>),
         reactions |-> Col("reactions", TRUE, <<0>>)]
    ELSE
        [actor |-> Col("actor", TRUE, <<>>),
         label |-> Col("label", TRUE, <<>>),
         pull_number |-> Col("pull_request", TRUE, <<>>),
         pull_url |-> Col("pull_request", TRUE, <<>>),
         source_type |-> Col("source", TRUE, <<>>)]

NestedFields(fn) == {NestedColumns(fn)[c].field : c \in DOMAIN NestedColumns(fn)}

\* d.get(field, {}).get(inner): None has no attribute get.
GetChain(state) ==
    IF state = "null" THEN [raised |-> TRUE, value |-> <<>>]
    ELSE IF state = "object" THEN [raised |-> FALSE, value |-> <<InnerValue>>]
    ELSE [raised |-> FALSE, value |-> <<>>]

\* bool(d.get(field)): None and {} are falsy.
DictTruthy(state) == state = "object"

\* The value of one column expression.
Cell(c, nested) ==
    IF c.guarded /\ ~DictTruthy(nested[c.field])
        THEN [raised |-> FALSE, value |-> c.default]
        ELSE GetChain(nested[c.field])

NoRaw == [fn |-> "none", nested |-> <<>>]
NoNorm == [state |-> "none", row |-> <<>>]

\* The dict literal appended to rows for one raw item: the row, or the
\* AttributeError of the first column expression that raises.
to_dataframe_row(item) ==
    LET cols == NestedColumns(item.fn)
        cells == [c \in DOMAIN cols |-> Cell(cols[c], item.nested)]
    IN  IF \E c \in DOMAIN cols : cells[c].raised
           THEN [state |-> "AttributeError", row |-> <<>>]
           ELSE [state |-> "returned", row |-> [c \in DOMAIN cols |-> cells[c].value]]

\* issues_to_dataframe / comments_to_dataframe / timeline_to_dataframe on [raw_item].
ToDataframe ==
    /\ raw_item.fn # "none"
    /\ norm.state = "none"
    /\ norm' = to_dataframe_row(raw_item)
    /\ UNCHANGED <<raw_item, serviceVars, mapper, runEnv, pipeVars>>

(***************************************************************************)
(* fetch_closed_gh_issues / fetch_gh_issues: the orchestration flow.       *)
(***************************************************************************)
IssuesToDataframe ==
    /\ pc = "fmi_done"
    /\ variant \in {"archive", "src"}
    /\ frames' = [frames EXCEPT !["issues"] = issues_to_dataframe(variant, issues)]
    /\ pc' = "comments_submit"
    /\ cursor' = 1
    \* the locals of fetch_many_issues are gone
    /\ collected' = <<>>
    /\ page' = 1
    /\ page_fut' = NoTask
    /\ page_log' = <<>>
    /\ UNCHANGED <<others, runEnv, variant, limit, max_pages, exclude_pulls, error, page_reqs, issues,
                   tasks, futures, merged, failures, files>>

(***************************************************************************)
(* fetch_issue_timelines_only of temp_get_event_data.py: the flow calls    *)
(* fetch_many_issues of the archive, builds no issues table, submits the   *)
(* fetch_timeline tasks itself, merges them as the timeline fan-out does   *)
(* and writes the timeline artifact alone.                                 *)
(***************************************************************************)
FetchIssueTimelinesOnly ==
    /\ pc = "fmi_done"
    /\ variant = "timelines_only"
    /\ pc' = "timeline_submit"
    /\ cursor' = 1
    \* the locals of fetch_many_issues are gone
    /\ collected' = <<>>
    /\ page' = 1
    /\ page_fut' = NoTask
    /\ page_log' = <<>>
    /\ UNCHANGED <<others, runEnv, variant, limit, max_pages, exclude_pulls, error, page_reqs, issues,
                   frames, tasks, futures, merged, failures, files>>

(***************************************************************************)
(* fetch_gh_issues of fetch_gh_data_3: the call of fetch_issues and the     *)
(* conversion are inside one try, and the handler of any exception prints  *)
(* it and returns an empty DataFrame.  pc = "aborted" is here the sub-flow *)
(* fetch_issues having raised into that try.                               *)
(***************************************************************************)
V3IssueColumns ==
    {"number", "title", "state", "created_at", "updated_at", "comments", "user", "url"}

\* The keys issues_to_dataframe of fetch_gh_data_3 subscripts in every issue:
\* issue["number"], issue["title"], ..., issue["user"], issue["html_url"].
V3RequiredKeys == {"number"} \cup ListedKeys

\* issues_to_dataframe of fetch_gh_data_3: the frame it returns, or the
\* KeyError of the first subscript of a key that an issue does not have.
issues_to_dataframe_v3(is) ==
    IF is = <<>> THEN [state |-> "returned", frame |-> EmptyFrame]
    ELSE IF \E k \in DOMAIN is : ~(V3RequiredKeys \subseteq is[k].keys)
        THEN [state |-> "raised", frame |-> EmptyFrame]
        ELSE [state |-> "returned",
              frame |-> [columns |-> V3IssueColumns,
                         rows |-> [k \in 1..Len(is) |-> [number |-> <<is[k].number>>]]]]

\* The record of print(f"Error in flow execution: {e}").
FlowErrorPrinted == <<"flow", 0>>

\* return convert_and_process(issues, show_urls): the KeyError of
\* issues_to_dataframe is raised inside the same try, whose handler prints it
\* and returns an empty DataFrame.
ConvertAndProcess ==
    /\ pc = "fmi_done"
    /\ variant = "v3"
    /\ LET df == issues_to_dataframe_v3(issues)
       IN  IF df.state = "raised"
              THEN /\ frames' = [frames EXCEPT !["issues"] = EmptyFrame]
                   /\ failures' = failures \cup {FlowErrorPrinted}
              ELSE /\ frames' = [frames EXCEPT !["issues"] = df.frame]
                   /\ UNCHANGED failures
    /\ pc' = "done"
    /\ UNCHANGED <<others, runEnv, variant, limit, max_pages, exclude_pulls, error, page,
                   collected, page_fut, page_log, page_reqs, issues, tasks, futures,
                   cursor, merged, files>>

\* except Exception as e: print(...); return pd.DataFrame(), after fetch_issues raised.
FetchGhIssuesExcept ==
    /\ pc = "aborted"
    /\ variant = "v3"
    /\ frames' = [frames EXCEPT !["issues"] = EmptyFrame]
    /\ failures' = failures \cup {FlowErrorPrinted}
    /\ error' = "none"
    /\ pc' = "done"
    /\ UNCHANGED <<others, runEnv, variant, limit, max_pages, exclude_pulls, page,
                   collected, page_fut, page_log, page_reqs, issues, tasks, futures,
                   cursor, merged, files>>

(***************************************************************************)
(* fetch_many_comments_for_issues / fetch_many_timelines_for_issues.       *)
(***************************************************************************)
SubmitPc(kind) == IF kind = "comments" THEN "comments_submit" ELSE "timeline_submit"
MergePc(kind) == IF kind = "comments" THEN "comments_merge" ELSE "timeline_merge"
\* Variant of AfterPc that leaves out the timeline fan-out after a failed comments fetch.
AfterPcSkipOnFailure(v, kind) ==
    IF kind = "comments" /\ v = "archive" /\ failures = {} THEN "timeline_submit" ELSE "write"

\* What the orchestration flow does after the fan-out of a kind has returned.
AfterPc(v, kind) ==
    IF kind = "comments" /\ v = "archive" THEN "timeline_submit" ELSE "write"

\* url = issue.get("<kind>_url") or f"{issue['url']}/<kind>" raises KeyError
\* when neither key is there.
HasLink(issue, kind) ==
    \/ (IF kind = "comments" THEN "comments_url" ELSE "timeline_url") \in issue.keys
    \/ "url" \in issue.keys

\* max_workers of the task runner of each flow; <<>> when the decorator names none.
TaskRunnerWorkers(flow) ==
    IF flow \in {"fetch_closed_gh_issues", "fetch_gh_issues", "fetch_issue_timelines_only"}
        THEN <<MaxWorkers>> ELSE <<>>

\* The flow whose body calls .submit for the tasks of a fan-out.
SubmittingFlow(kind) ==
    IF variant = "timelines_only" THEN "fetch_issue_timelines_only"
    ELSE IF kind = "comments" THEN "fetch_many_comments_for_issues"
                              ELSE "fetch_many_timelines_for_issues"

Running(kind) ==
    Cardinality({i \in DOMAIN tasks[kind] : tasks[kind][i].state = "running"})

HasFreeWorker(kind) ==
    LET w == TaskRunnerWorkers(SubmittingFlow(kind))
    IN  IF Len(w) = 0 THEN TRUE ELSE Running(kind) < w[1]

\* Variant of SetIssueNumber that keeps an issue_number the payload already has.
SetIssueNumberDefault(c, num) ==
    IF "issue_number" \in c.keys THEN c
    ELSE [c EXCEPT !.keys = @ \cup {"issue_number"}, !.issue_number = num]

\* c["issue_number"] = num
SetIssueNumber(c, num) ==
    [c EXCEPT !.keys = @ \cup {"issue_number"}, !.issue_number = num]

MergeOne(result, num) == [k \in 1..Len(result) |-> SetIssueNumber(result[k], num)]

\* Variant of MergeStep in which a failed future empties the accumulated list.
MergeStepReset(acc, t, num) ==
    IF t.state = "completed" THEN acc \o MergeOne(t.result, num) ELSE <<>>

\* Variant of MergeStep that puts the rows of a future before the accumulated ones.
MergeStepPrepend(acc, t, num) ==
    IF t.state = "completed" THEN MergeOne(t.result, num) \o acc ELSE acc

\* One iteration of the merge loop on the accumulated list: the rows of a
\* completed future are appended, a failed future leaves the list as it is.
MergeStep(acc, t, num) ==
    IF t.state = "completed" THEN acc \o MergeOne(t.result, num) ELSE acc

\* Variant of FutureDone in which fut.result() does not wait for the task run.
FutureDoneNoWait(t) == TRUE

\* Variant of FutureDone in which fut.result() returns once the task run started.
FutureDoneWhenStarted(t) == t.state # "pending"

\* fut.result() returns, or raises, once the task run has reached a final state.
FutureDone(t) == t.state \in {"completed", "failed"}

\* Variant of ItemFailurePc without the try/except around fut.result().
ItemFailureRaises(kind) == "aborted"

\* Where the merge loop goes after the except clause has logged a failed future.
ItemFailurePc(kind) == MergePc(kind)

Submit(kind) ==
    /\ pc = SubmitPc(kind)
    /\ IF issues = <<>>
          THEN \* if not issues: return pd.DataFrame(); in fetch_issue_timelines_only
               \* both loops run over nothing and timeline_to_dataframe([]) is
               \* pd.DataFrame() as well
               /\ frames' = [frames EXCEPT ![kind] = EmptyFrame]
               /\ pc' = AfterPc(variant, kind)
               /\ UNCHANGED <<error, tasks, futures, cursor, merged>>
          ELSE IF cursor > Len(issues)
          THEN /\ pc' = MergePc(kind)
               /\ cursor' = 1
               /\ merged' = <<>>
               /\ UNCHANGED <<error, frames, tasks, futures>>
          ELSE LET issue == issues[cursor]
               IN  IF ~HasLink(issue, kind)
                      THEN /\ pc' = "aborted"
                           /\ error' = "KeyError"
                           /\ UNCHANGED <<frames, tasks, futures, cursor, merged>>
                      ELSE /\ tasks' = [tasks EXCEPT ![kind] = Append(@, NewTask("pending"))]
                           /\ IF "number" \notin issue.keys
                                 THEN /\ pc' = "aborted"
                                      /\ error' = "KeyError"
                                      /\ UNCHANGED <<futures, cursor>>
                                 ELSE /\ futures' = [futures EXCEPT ![kind] = Append(@, issue.number)]
                                      /\ cursor' = cursor + 1
                                      /\ UNCHANGED <<pc, error>>
                           /\ UNCHANGED <<frames, merged>>
    /\ UNCHANGED <<others, runEnv, variant, limit, max_pages, exclude_pulls, page, collected, page_fut,
                   page_log, page_reqs, issues, failures, files>>

\* The threads of the task runner execute the task runs of a fan-out while
\* the flow that submitted them runs, and go on after that flow has raised:
\* a task run handed to the pool starts and ends whatever the submitting
\* thread does next.
TaskRunnerActive(kind) == pc \in {SubmitPc(kind), MergePc(kind), "aborted"}

\* The identifier of issue i as far as its URLs go: its number, 0 without one.
\* Task run i of a fan-out was submitted with the URL of issues[i].
SubmittedUrl(i) == issues[i].number

\* A worker thread of the task runner takes the oldest queued task.
WorkerStart(kind, i) ==
    /\ TaskRunnerActive(kind)
    /\ i \in DOMAIN tasks[kind]
    /\ tasks[kind][i].state = "pending"
    /\ \A j \in 1..(i - 1) : tasks[kind][j].state # "pending"
    /\ HasFreeWorker(kind)
    /\ tasks' = [tasks EXCEPT ![kind][i].state = "running"]
    /\ UNCHANGED <<others, runEnv, variant, limit, max_pages, exclude_pulls, pc, error, page, collected,
                   page_fut, page_log, page_reqs, issues, frames, futures, cursor,
                   merged, failures, files>>

\* fetch_comments / fetch_timeline: one attempt of one task run.
FetchAttempt(kind, i) ==
    /\ TaskRunnerActive(kind)
    /\ i \in DOMAIN tasks[kind]
    /\ tasks[kind][i].state = "running"
    /\ \E resp \in ItemAnswers(backend, kind, SubmittedUrl(i)) :
          tasks' = [tasks EXCEPT ![kind][i] = TaskStep(@, resp, Retries(variant))]
    /\ sent' = sent \cup {Request(kind)}
    /\ attempts' = Counted(attempts, "items")
    /\ UNCHANGED <<others, runIn, paths, prev, variant, limit, max_pages, exclude_pulls, pc, error, page, collected,
                   page_fut, page_log, page_reqs, issues, frames, futures, cursor,
                   merged, failures, files>>

\* for num, fut in futures: try: ... fut.result() ... except Exception: log.error
Merge(kind) ==
    /\ pc = MergePc(kind)
    /\ IF cursor > Len(futures[kind])
          THEN \* return <kind>_to_dataframe(...); the futures go with the frame
               /\ frames' = [frames EXCEPT ![kind] = entries_to_dataframe(kind, merged)]
               /\ pc' = AfterPc(variant, kind)
               /\ cursor' = 1
               /\ merged' = <<>>
               /\ tasks' = [tasks EXCEPT ![kind] = <<>>]
               /\ UNCHANGED <<error, failures>>
          ELSE LET t == tasks[kind][cursor]
                   num == futures[kind][cursor]
               IN  /\ FutureDone(t)
                   /\ IF t.state = "failed" /\ ItemFailurePc(kind) # MergePc(kind)
                         THEN /\ pc' = ItemFailurePc(kind)
                              /\ error' = "item_fetch_failed"
                              /\ UNCHANGED <<merged, failures, cursor>>
                         ELSE /\ merged' = MergeStep(merged, t, num)
                              /\ failures' = IF t.state = "failed"
                                                THEN failures \cup {<<kind, cursor>>}
                                                ELSE failures
                              /\ cursor' = cursor + 1
                              /\ UNCHANGED <<pc, error>>
                   /\ UNCHANGED <<frames, tasks>>
    /\ UNCHANGED <<others, runEnv, variant, limit, max_pages, exclude_pulls, page, collected, page_fut,
                   page_log, page_reqs, issues, futures, files>>

(***************************************************************************)
(* Writing the artifacts.                                                  *)
(***************************************************************************)
NoFile == [exists |-> FALSE, columns |-> {}, rows |-> <<>>]
Artifacts == {"issues", "comments", "timeline"}

WriteOrder(v) ==
    IF v = "archive" THEN <<"issues", "comments", "timeline">>
    ELSE IF v = "timelines_only" THEN <<"timeline">>
    ELSE <<"issues", "comments">>

\* DataFrame.to_csv(path, index=False)
ToCsv(df) == [exists |-> TRUE, columns |-> df.columns, rows |-> df.rows]

\* Variant of Overwrite that opens the file for appending.
OverwriteAppend(old, df) ==
    [exists |-> TRUE, columns |-> df.columns, rows |-> old.rows \o df.rows]

\* to_csv opens the path with mode "w": what the file held is gone.
Overwrite(old, df) == ToCsv(df)

\* str.replace(old, new) on a sequence of characters
Replace(s, old, new) == [k \in 1..Len(s) |-> IF s[k] = old THEN new ELSE s[k]]

\* Variant of repo_safe that leaves the dots of the identifier in place.
repo_safe_keep_dots(repo) == Replace(Replace(repo, "/", "_"), "-", "_")

\* repository.replace("/", "_").replace("-", "_").replace(".", "_")
repo_safe(repo) == Replace(Replace(Replace(repo, "/", "_"), "-", "_"), ".", "_")

Suffix(a) ==
    IF a = "issues" THEN "_issues.csv"
    ELSE IF a = "comments" THEN "_issue_comments.csv"
    ELSE "_issue_timeline.csv"

\* f"{repo_safe}<suffix>": the characters of repo_safe followed by the suffix
ArtifactPath(repo, a) == Append(repo_safe(repo), Suffix(a))

WriteCsv ==
    /\ pc = "write"
    /\ cursor <= Len(WriteOrder(variant))
    /\ LET a == WriteOrder(variant)[cursor]
       IN  /\ files' = [files EXCEPT ![a] = Overwrite(@, frames[a])]
           /\ paths' = [paths EXCEPT ![a] = ArtifactPath(repository, a)]
    /\ cursor' = cursor + 1
    /\ UNCHANGED <<others, runIn, sent, prev, attempts, variant, limit, max_pages, exclude_pulls,
                   pc, error, page, collected, page_fut, page_log, page_reqs, issues,
                   frames, tasks, futures, merged, failures>>

\* The file emptied by open(path, "w").
Truncated == [exists |-> TRUE, columns |-> {}, rows |-> <<>>]

\* The header line of the CSV of an artifact of variant v.
HeaderLine(v, a) ==
    IF a = "issues" THEN IssueHeader(v)
    ELSE IF a = "comments" THEN CommentHeader
    ELSE TimelineHeader

\* The name read back from a header line that ends inside a column name or
\* right after a comma: a proper prefix of that name.
CutName == "<cut>"

RECURSIVE DecimalPrefixes(_)
\* The numbers read from the non-empty prefixes of the decimal text of n.
DecimalPrefixes(n) == IF n < 10 THEN {n} ELSE {n} \cup DecimalPrefixes(n \div 10)

\* A cell of which a non-empty prefix of its text was written, as it is read
\* back; the cell of None is written as the empty text.
CellPrefixes(c) == IF c = <<>> THEN {<<>>} ELSE {<<m>> : m \in DecimalPrefixes(c[1])}

\* The last row of a file whose text ends inside the line of that row, as it
\* is read back: the cell the text ends in holds a prefix of its value and
\* the cells after it are missing.  The id is the first field of a comment
\* or event row and comes before issue_number; issue_number is the first
\* field of an issue row.
TornRows(row) ==
    IF "id" \in DOMAIN row
        THEN {[id |-> i, issue_number |-> <<>>] : i \in CellPrefixes(row.id)} \cup
             {[id |-> row.id, issue_number |-> n] : n \in CellPrefixes(row.issue_number)}
        ELSE {[issue_number |-> n] : n \in CellPrefixes(row.issue_number)}

\* What a to_csv call that raises leaves at its path, as a reader of the
\* file sees it: the file as it was when open() raised, the emptied file
\* when nothing reached it, or a prefix of the text of the CSV when the write
\* raised partway.  A prefix ends in the header line, after some of the
\* column names and possibly inside the next one, or it holds the whole
\* header and the first rows, the last of which may be cut short, inside a
\* value or after it; it may hold every row (the text ends before the final
\* newline).
FailedWrite(old, df, header) ==
    LET h == IF df.columns = {} THEN <<>> ELSE header
        InHeader ==
            {[exists |-> TRUE, columns |-> {h[j] : j \in 1..k} \cup frag, rows |-> <<>>] :
                k \in 0..(Len(h) - 1), frag \in {{}, {CutName}}}
        WholeRows ==
            {[exists |-> TRUE, columns |-> df.columns, rows |-> SubSeq(df.rows, 1, n)] :
                n \in 0..Len(df.rows)}
        LastTorn ==
            UNION {{[exists |-> TRUE, columns |-> df.columns,
                     rows |-> Append(SubSeq(df.rows, 1, n - 1), t)] :
                        t \in TornRows(df.rows[n])} : n \in 1..Len(df.rows)}
    IN  {old, Truncated} \cup InHeader \cup WholeRows \cup LastTorn

\* DataFrame.to_csv raises OSError (path not writable, disk full): nothing in
\* the flow catches it, and the artifacts written before it stay as written.
WriteCsvRaise ==
    /\ pc = "write"
    /\ cursor <= Len(WriteOrder(variant))
    /\ LET a == WriteOrder(variant)[cursor]
       IN  \E left \in FailedWrite(files[a], frames[a], HeaderLine(variant, a)) :
              files' = [files EXCEPT ![a] = left]
    /\ pc' = "aborted"
    /\ error' = "OSError"
    /\ UNCHANGED <<others, runEnv, variant, limit, max_pages, exclude_pulls, page, collected,
                   page_fut, page_log, page_reqs, issues, frames, tasks, futures,
                   cursor, merged, failures>>

Finish ==
    /\ pc = "write"
    /\ cursor > Len(WriteOrder(variant))
    /\ pc' = "done"
    /\ UNCHANGED <<others, runEnv, variant, limit, max_pages, exclude_pulls, error, page, collected,
                   page_fut, page_log, page_reqs, issues, frames, tasks, futures,
                   cursor, merged, failures, files>>

\* The row count and the set of issue numbers of each table.
TableSummary(fr) ==
    [a \in Artifacts |->
        [count |-> Len(fr[a].rows),
         numbers |-> {fr[a].rows[k].issue_number : k \in DOMAIN fr[a].rows}]]

\* The flow is called once more, against the same backend and the same disk.
Rerun ==
    /\ pc = "done"
    /\ prev = <<>>
    /\ prev' = <<TableSummary(frames)>>
    /\ pc' = "fmi_loop"
    /\ page' = 1
    /\ collected' = <<>>
    /\ page_fut' = NoTask
    /\ page_log' = <<>>
    /\ page_reqs' = 0
    /\ issues' = <<>>
    /\ frames' = [a \in Artifacts |-> EmptyFrame]
    /\ tasks' = [k \in Kinds |-> <<>>]
    /\ futures' = [k \in Kinds |-> <<>>]
    /\ cursor' = 0
    /\ merged' = <<>>
    /\ failures' = {}
    /\ UNCHANGED <<others, runIn, sent, paths, attempts, variant, limit, max_pages, exclude_pulls,
                   error, files>>

(***************************************************************************)
(* The GraphQL listing of merged pull requests                             *)
(* (services/github_service.py, generate/get_gh_data/                      *)
(* fetch_pr_closing_issues.py).  A page is the pullRequests object of a    *)
(* response: pageInfo.hasNextPage (<<>> when the key is absent),           *)
(* pageInfo.endCursor (<<>> for null) and the nodes, each with its number  *)
(* and the numbers of closingIssuesReferences.nodes.                       *)
(***************************************************************************)
PrNode(n, closing) == [number |-> n, closing |-> closing]

GqlNodes == {<<>>, <<PrNode(1, <<10>>)>>, <<PrNode(1, <<>>), PrNode(2, <<10, 11>>)>>}
GqlCursors == {<<>>, <<"c1">>}
GqlPages ==
    {[hasNextPage |-> h, endCursor |-> e, nodes |-> n] :
        h \in {<<>>, <<TRUE>>, <<FALSE>>}, e \in GqlCursors, n \in GqlNodes}

\* What execute_graphql_query raises: raise_for_status, or the "errors" key.
GqlErrors == {"HTTPStatusError", "GraphQL errors"}

RECURSIVE Flatten(_)
\* The concatenation of a sequence of sequences.
Flatten(ss) == IF ss = <<>> THEN <<>> ELSE Head(ss) \o Flatten(Tail(ss))

\* The records of one pull request: one per issue it closes.
PrRecords(pr) ==
    [k \in 1..Len(pr.closing) |-> [pr_number |-> pr.number, issue_number |-> pr.closing[k]]]

parse_graphql_response(pg) == Flatten([k \in 1..Len(pg.nodes) |-> PrRecords(pg.nodes[k])])

\* page_info.get("hasNextPage", False)
HasNextPage(pg) == pg.hasNextPage = <<TRUE>>

\* Variant of NextCursor that asks for the first page again.
NextCursorNull(pg) == <<>>

\* cursor = page_info.get("endCursor")
NextCursor(pg) == pg.endCursor

NoClient ==
    [pc |-> "idle", cursor |-> <<>>, all_pr_issues |-> <<>>, page_count |-> 0,
     requests |-> <<>>, pages |-> <<>>, error |-> "none"]

\* all_pr_issues = []; cursor = None; page_count = 0
NewClient == [NoClient EXCEPT !.pc = "request"]

\* page_count += 1; response = await self.execute_graphql_query(query, variables)
\* The request is logged with the cursor it carries.
ClientRequest ==
    /\ client.pc = "request"
    /\ client.page_count < MaxGqlPages
    /\ client' = [client EXCEPT !.pc = "wait",
                                !.page_count = @ + 1,
                                !.requests = Append(@, client.cursor)]
    /\ UNCHANGED <<endpoint, db, mapper, helperVars, runEnv, pipeVars>>

\* The response arrives: an exception leaves the loop, a page is parsed and
\* appended, and the loop ends on a page without a next page.
ClientResponse ==
    /\ client.pc = "wait"
    /\ \/ \E e \in GqlErrors :
             client' = [client EXCEPT !.pc = "raised", !.error = e]
       \/ \E pg \in GqlPages :
             client' = [client EXCEPT
                          !.all_pr_issues = @ \o parse_graphql_response(pg),
                          !.pages = Append(@, pg),
                          !.pc = IF HasNextPage(pg) THEN "request" ELSE "returned",
                          !.cursor = IF HasNextPage(pg) THEN NextCursor(pg) ELSE @]
    /\ UNCHANGED <<endpoint, db, mapper, helperVars, runEnv, pipeVars>>

(***************************************************************************)
(* POST /github/extract (routers/github.py) and the tables it writes       *)
(* (database/crud.py).  db holds the committed rows; what a failed         *)
(* statement had inserted since the last commit is gone with the rollback. *)
(***************************************************************************)
EmptyDb == [datasets |-> <<>>, pr_issues |-> <<>>]

NoResponse == [status |-> 0, detail |-> <<>>, body |-> <<>>]
NoEndpoint ==
    [pc |-> "idle", pr_issues |-> <<>>, dataset |-> <<>>, error |-> "none",
     response |-> NoResponse]

\* Variant of ErrorResponse that hides the text of the exception.
ErrorResponseNoText(e) ==
    [status |-> 500, detail |-> <<"Internal Server Error">>, body |-> <<>>]

\* raise HTTPException(status_code=500, detail=f"GitHub API error: {str(e)}")
ErrorResponse(e) ==
    [status |-> 500, detail |-> <<"GitHub API error: ", e>>, body |-> <<>>]

\* return ExtractResponse(status="success", dataset_id=..., pr_issues_count=...)
SuccessResponse(dataset, pr_issues) ==
    [status |-> 200, detail |-> <<>>,
     body |-> <<[status |-> "success", dataset_id |-> dataset.id,
                 pr_issues_count |-> Len(pr_issues)]>>]

\* except Exception as e: db.rollback(); raise HTTPException(...)
Fail(e) ==
    [endpoint EXCEPT !.pc = "done", !.error = e, !.response = ErrorResponse(e)]

\* client = GitHubClient(): without a token in GITHUB_TOKEN it raises ValueError.
ExtractStart ==
    /\ endpoint.pc = "start"
    /\ IF Truthy(env_token)
          THEN /\ client' = NewClient
               /\ endpoint' = [endpoint EXCEPT !.pc = "fetching"]
          ELSE /\ endpoint' = Fail("ValueError")
               /\ UNCHANGED client
    /\ UNCHANGED <<db, mapper, helperVars, runEnv, pipeVars>>

\* pr_issues = await client.fetch_pr_issue_data(repo_owner, repo_name)
ExtractFetched ==
    /\ endpoint.pc = "fetching"
    /\ client.pc \in {"returned", "raised"}
    /\ endpoint' = IF client.pc = "raised"
                      THEN Fail(client.error)
                      ELSE [endpoint EXCEPT !.pc = "create_dataset",
                                            !.pr_issues = client.all_pr_issues]
    /\ UNCHANGED <<client, db, mapper, helperVars, runEnv, pipeVars>>

\* crud.create_dataset: INSERT INTO datasets ...; commit.  The id stands for
\* the uuid.  Without records the handler returns right after it.
CreateDataset ==
    /\ endpoint.pc = "create_dataset"
    /\ \E ok \in BOOLEAN :
          IF ok
             THEN LET dataset == [id |-> Len(db.datasets) + 1,
                                  pr_count |-> Len(endpoint.pr_issues)]
                  IN  /\ db' = [db EXCEPT !.datasets = Append(@, dataset)]
                      /\ endpoint' =
                            IF endpoint.pr_issues # <<>>
                               THEN [endpoint EXCEPT !.pc = "save_pr_issues",
                                                     !.dataset = <<dataset>>]
                               ELSE [endpoint EXCEPT
                                       !.pc = "done",
                                       !.dataset = <<dataset>>,
                                       !.response = SuccessResponse(dataset, endpoint.pr_issues)]
             ELSE /\ endpoint' = Fail("OperationalError")
                  /\ UNCHANGED db
    /\ UNCHANGED <<client, mapper, helperVars, runEnv, pipeVars>>

\* crud.save_pr_issues: one INSERT per record, then commit.
SavePrIssues ==
    /\ endpoint.pc = "save_pr_issues"
    /\ \E ok \in BOOLEAN :
          IF ok
             THEN LET dataset == endpoint.dataset[1]
                      rows == [k \in 1..Len(endpoint.pr_issues) |->
                                 [dataset_id |-> dataset.id,
                                  pr_number |-> endpoint.pr_issues[k].pr_number,
                                  issue_number |-> endpoint.pr_issues[k].issue_number]]
                  IN  /\ db' = [db EXCEPT !.pr_issues = @ \o rows]
                      /\ endpoint' = [endpoint EXCEPT
                                        !.pc = "done",
                                        !.response = SuccessResponse(dataset, endpoint.pr_issues)]
             ELSE /\ endpoint' = Fail("OperationalError")
                  /\ UNCHANGED db
    /\ UNCHANGED <<client, mapper, helperVars, runEnv, pipeVars>>

(***************************************************************************)
(* fetch_pr_issue_mapping (generate/get_gh_data/fetch_pr_closing_issues.py)*)
(* max_prs is <<>> for None.                                               *)
(***************************************************************************)
NoMapper ==
    [pc |-> "idle", max_prs |-> <<>>, cursor |-> <<>>, out |-> <<>>,
     processed_prs |-> {}, requests |-> <<>>, pages |-> <<>>, error |-> "none"]

\* max_prs is not None and len(processed_prs) >= max_prs
EnoughPrs(max_prs, processed) ==
    IF Len(max_prs) = 0 THEN FALSE ELSE Cardinality(processed) >= max_prs[1]

\* for pr in data["nodes"]: the locals after the loop, and whether the
\* function returned from inside it.
ProcessNodes(nodes, out, processed, max_prs) ==
    LET st[k \in 0..Len(nodes)] ==
            IF k = 0 THEN [out |-> out, processed |-> processed, returned |-> FALSE]
            ELSE LET before == st[k - 1]
                     pr == nodes[k]
                 IN  IF before.returned \/ pr.closing = <<>>
                        THEN before
                        ELSE LET ps == before.processed \cup {pr.number}
                             IN  [out |-> before.out \o PrRecords(pr),
                                  processed |-> ps,
                                  returned |-> EnoughPrs(max_prs, ps)]
    IN  st[Len(nodes)]

\* resp = session.post(GITHUB_API, json={"query": _query(owner, name, cursor)}, ...)
MapperRequest ==
    /\ mapper.pc = "request"
    /\ Len(mapper.requests) < MaxGqlPages
    /\ mapper' = [mapper EXCEPT !.pc = "wait", !.requests = Append(@, mapper.cursor)]
    /\ UNCHANGED <<serviceVars, helperVars, runEnv, pipeVars>>

\* raise_for_status raises, or the page is processed; data["pageInfo"]
\* ["hasNextPage"] raises KeyError when the key is not there.
MapperResponse ==
    /\ mapper.pc = "wait"
    /\ \/ mapper' = [mapper EXCEPT !.pc = "raised", !.error = "HTTPError"]
       \/ \E pg \in GqlPages :
             LET st == ProcessNodes(pg.nodes, mapper.out, mapper.processed_prs,
                                    mapper.max_prs)
                 seen == [mapper EXCEPT !.out = st.out,
                                        !.processed_prs = st.processed,
                                        !.pages = Append(@, pg)]
             IN  mapper' =
                    IF st.returned THEN [seen EXCEPT !.pc = "returned"]
                    ELSE IF pg.hasNextPage = <<>>
                        THEN [seen EXCEPT !.pc = "raised", !.error = "KeyError"]
                    ELSE IF ~HasNextPage(pg) THEN [seen EXCEPT !.pc = "returned"]
                    ELSE [seen EXCEPT !.pc = "request", !.cursor = pg.endCursor]
    /\ UNCHANGED <<serviceVars, helperVars, runEnv, pipeVars>>

(***************************************************************************)
(* Initial states.                                                         *)
(***************************************************************************)
InitLocals ==
    /\ pc = "fmi_loop"
    /\ error = "none"
    /\ page = 1
    /\ collected = <<>>
    /\ page_fut = NoTask
    /\ page_log = <<>>
    /\ page_reqs = 0
    /\ issues = <<>>
    /\ frames = [a \in Artifacts |-> EmptyFrame]
    /\ tasks = [k \in Kinds |-> <<>>]
    /\ futures = [k \in Kinds |-> <<>>]
    /\ cursor = 0
    /\ merged = <<>>
    /\ failures = {}

DefaultRepository == <<"o", "/", "r">>
NoPaths == [a \in Artifacts |-> <<>>]

\* The histories of a run that has not started.
NoHistory ==
    /\ sent = {}
    /\ paths = NoPaths
    /\ prev = <<>>
    /\ attempts = <<>>

\* A run against the live API, without a token, on an empty disk.
LiveRun ==
    /\ backend = LiveBackend
    /\ token = <<>>
    /\ env_token = <<>>
    /\ repository = DefaultRepository
    /\ NoHistory

IdleHelpers ==
    /\ raw_item = NoRaw
    /\ norm = NoNorm

IdleService ==
    /\ client = NoClient
    /\ endpoint = NoEndpoint
    /\ db = EmptyDb

IdleOthers ==
    /\ IdleHelpers
    /\ IdleService
    /\ mapper = NoMapper

InitCommon ==
    /\ InitLocals
    /\ files = [a \in Artifacts |-> NoFile]
    /\ LiveRun
    /\ IdleOthers

PagingLimits == (0..MaxLimit) \cup {PerPageCap + d : d \in 1..MaxOver}

InitPaging ==
    /\ variant \in Variants
    /\ limit \in PagingLimits
    /\ max_pages \in 0..MaxPages
    /\ exclude_pulls \in (IF variant = "v3" THEN BOOLEAN ELSE {TRUE})
    /\ InitCommon

NextPaging ==
    \/ FetchManyIssuesLoop
    \/ FetchIssuePageAttempt
    \/ FetchManyIssuesBatch
    \/ FetchManyIssuesRaise
    \/ FetchManyIssuesReturn

SpecPaging == InitPaging /\ [][NextPaging]_vars

\* fetch_gh_issues of fetch_gh_data_3.
InitV3 ==
    /\ variant = "v3"
    /\ limit \in 0..MaxLimit
    /\ max_pages \in 0..MaxPages
    /\ exclude_pulls \in BOOLEAN
    /\ InitCommon

NextV3 ==
    \/ NextPaging
    \/ ConvertAndProcess
    \/ FetchGhIssuesExcept

SpecV3 == InitV3 /\ [][NextV3]_vars

Init ==
    /\ variant \in {"archive", "src"}
    /\ limit \in 0..MaxLimit
    /\ max_pages \in {0, 1}
    /\ exclude_pulls = TRUE
    /\ InitCommon

Next ==
    \/ FetchManyIssuesLoop
    \/ FetchIssuePageAttempt
    \/ FetchManyIssuesBatch
    \/ FetchManyIssuesRaise
    \/ FetchManyIssuesReturn
    \/ IssuesToDataframe
    \/ \E kind \in Kinds : Submit(kind)
    \/ \E kind \in Kinds : \E i \in 1..Len(tasks[kind]) : WorkerStart(kind, i)
    \/ \E kind \in Kinds : \E i \in 1..Len(tasks[kind]) : FetchAttempt(kind, i)
    \/ \E kind \in Kinds : Merge(kind)
    \/ WriteCsv
    \/ Finish

Spec == Init /\ [][Next]_vars

\* fetch_many_comments_for_issues on a list of n well-formed issues.
InitFanout ==
    /\ variant = "archive"
    /\ limit = MaxFanout
    /\ max_pages = 1
    /\ exclude_pulls = TRUE
    /\ pc = "comments_submit"
    /\ error = "none"
    /\ page = 1
    /\ collected = <<>>
    /\ page_fut = NoTask
    /\ page_log = <<>>
    /\ page_reqs = 1
    /\ \E n \in 0..MaxFanout : issues = [k \in 1..n |-> Issue(k)]
    /\ frames = [a \in Artifacts |->
                    IF a = "issues" THEN issues_to_dataframe(variant, issues) ELSE EmptyFrame]
    /\ tasks = [k \in Kinds |-> <<>>]
    /\ futures = [k \in Kinds |-> <<>>]
    /\ cursor = 1
    /\ merged = <<>>
    /\ failures = {}
    /\ files = [a \in Artifacts |-> NoFile]
    /\ LiveRun
    /\ IdleOthers

NextFanout ==
    \/ Submit("comments")
    \/ \E i \in 1..Len(tasks["comments"]) : WorkerStart("comments", i)
    \/ \E i \in 1..Len(tasks["comments"]) : FetchAttempt("comments", i)
    \/ Merge("comments")

SpecFanout == InitFanout /\ [][NextFanout]_vars

(***************************************************************************)
(* The DataFrame helpers on one raw item.                                  *)
(***************************************************************************)
IdlePipeline ==
    /\ variant = "archive"
    /\ limit = 0
    /\ max_pages = 0
    /\ exclude_pulls = TRUE
    /\ InitLocals
    /\ files = [a \in Artifacts |-> NoFile]
    /\ LiveRun

InitNormalize ==
    /\ \E fn \in Helpers :
          raw_item \in {[fn |-> fn, nested |-> n] : n \in [NestedFields(fn) -> NestedStates]}
    /\ norm = NoNorm
    /\ IdlePipeline
    /\ IdleService
    /\ mapper = NoMapper

NextNormalize == ToDataframe

SpecNormalize == InitNormalize /\ [][NextNormalize]_vars

(***************************************************************************)
(* Runs against a mock backend.                                            *)
(***************************************************************************)
CannedListings ==
    {ServerError} \cup
    {Ok(l) : l \in {<<>>, <<Issue(2)>>, <<Issue(1), Issue(2)>>,
                    <<PullRequest(3), Issue(1)>>}}
CannedBody == << Entry(1, {"id"}, 0), Entry(2, {"id", "issue_number"}, 7) >>
CannedItems == {ServerError, Ok(<<>>), Ok(CannedBody)}

MockBackends ==
    {[live |-> FALSE, flaky |-> FALSE, listing |-> l, later |-> Ok(<<>>), items |-> it] :
        l \in CannedListings, it \in [Kinds -> [1..2 -> CannedItems]]}

\* The flow called twice in a row against one mock backend.
InitRerun ==
    /\ variant = "archive"
    /\ limit \in 1..MaxLimit
    /\ max_pages = 1
    /\ exclude_pulls = TRUE
    /\ InitLocals
    /\ files = [a \in Artifacts |-> NoFile]
    /\ backend \in MockBackends
    /\ token = <<>>
    /\ env_token = <<>>
    /\ repository = DefaultRepository
    /\ NoHistory
    /\ IdleOthers

NextRerun ==
    \/ Next
    \/ Rerun

SpecRerun == InitRerun /\ [][NextRerun]_vars

(***************************************************************************)
(* Runs with a token, a repository identifier and artifacts of an earlier  *)
(* run on disk.                                                            *)
(***************************************************************************)
Tokens == {<<>>, <<"">>, <<"ghp_arg">>}
EnvTokens == {<<>>, <<"">>, <<"ghp_env">>}
Repositories == {DefaultRepository, <<"a", "-", "b", "/", "c", ".", "d">>}

\* A row an earlier run wrote for an issue this run does not see.
OldFile(a) ==
    [exists |-> TRUE,
     columns |-> IF a = "issues" THEN IssueColumns("archive")
                 ELSE IF a = "comments" THEN CommentColumns ELSE TimelineColumns,
     rows |-> IF a = "issues" THEN <<[issue_number |-> <<9>>]>>
              ELSE <<[id |-> <<9>>, issue_number |-> <<9>>]>>]

RunBackends ==
    {b \in MockBackends :
        /\ b.listing \in {ServerError, Ok(<<>>), Ok(<<Issue(1), Issue(2)>>)}
        /\ b.items["timeline"] = [n \in 1..2 |-> Ok(CannedBody)]
        /\ b.items["comments"][2] = Ok(CannedBody)
        /\ b.items["comments"][1] \in {ServerError, Ok(CannedBody)}}

InitRun ==
    /\ variant \in {"archive", "src", "timelines_only"}
    /\ limit = 2
    /\ max_pages = 1
    /\ exclude_pulls = TRUE
    /\ InitLocals
    /\ files \in {[a \in Artifacts |-> NoFile], [a \in Artifacts |-> OldFile(a)]}
    /\ backend \in RunBackends
    /\ token \in Tokens
    /\ env_token \in EnvTokens
    /\ repository \in Repositories
    /\ NoHistory
    /\ IdleOthers

\* The flows that write artifacts, each called twice in a row.
NextRun ==
    \/ NextRerun
    \/ FetchIssueTimelinesOnly

SpecRun == InitRun /\ [][NextRun]_vars

(***************************************************************************)
(* Runs with limit > 100, in which a second page is requested after the   *)
(* first one came back full.                                               *)
(***************************************************************************)
OverLimits == {PerPageCap + d : d \in 1..MaxOver}

\* The answers of an API that is down: no connection, or a status without a
\* body that parses.
Outages == Responses({})

\* An API that is down from the start, or holds two issues, or answers the
\* first page with 100 issues and is down when the second page is requested.
OutageBackends ==
    {[live |-> FALSE, flaky |-> FALSE, listing |-> l, later |-> o,
      items |-> [k \in Kinds |-> [n \in 1..2 |-> Ok(CannedBody)]]] :
        l \in {ServerError, Ok(<<Issue(1), Issue(2)>>), Ok(FullPage(1, 0))},
        o \in Outages}

InitOutage ==
    /\ variant \in {"archive", "src"}
    /\ limit \in OverLimits
    /\ max_pages \in 2..MaxPages
    /\ exclude_pulls = TRUE
    /\ InitLocals
    /\ files \in {[a \in Artifacts |-> NoFile], [a \in Artifacts |-> OldFile(a)]}
    /\ backend \in OutageBackends
    /\ token = <<>>
    /\ env_token = <<>>
    /\ repository = DefaultRepository
    /\ NoHistory
    /\ IdleOthers

SpecOutage == InitOutage /\ [][Next]_vars

\* A listing of more than 100 issues that shifts between the two page
\* requests: the second page starts with the last item of the first (an
\* issue was opened in between), or it does not.  No page holds an item twice.
ShiftedBackends ==
    {[live |-> FALSE, flaky |-> FALSE, listing |-> Ok(l), later |-> o,
      items |-> [k \in Kinds |-> [n \in 1..2 |-> Ok(CannedBody)]]] :
        l \in {FullPage(1, 0), FullPage(0, 0)},
        o \in {ServerError, Ok(<<>>), Ok(<<Issue(PerPageCap)>>),
               Ok(<<Issue(PerPageCap), Issue(PerPageCap + 1)>>),
               Ok(<<PullRequest(3), Issue(PerPageCap)>>),
               Ok(<<Issue(PerPageCap + 1)>>)}}

\* fetch_many_issues and issues_to_dataframe, up to the issues table.
InitIssuesTable ==
    /\ variant \in {"archive", "src"}
    /\ limit \in OverLimits
    /\ max_pages \in 1..MaxPages
    /\ exclude_pulls = TRUE
    /\ InitLocals
    /\ files = [a \in Artifacts |-> NoFile]
    /\ backend \in ShiftedBackends
    /\ token = <<>>
    /\ env_token = <<>>
    /\ repository = DefaultRepository
    /\ NoHistory
    /\ IdleOthers

NextIssuesTable ==
    \/ NextPaging
    \/ IssuesToDataframe

SpecIssuesTable == InitIssuesTable /\ [][NextIssuesTable]_vars

\* A repository whose one issue, comment and event have numbers of two digits.
TwoDigitBackend ==
    [live |-> FALSE, flaky |-> FALSE, listing |-> Ok(<<Issue(12)>>), later |-> Ok(<<>>),
     items |-> [k \in Kinds |-> [n \in {12} |-> Ok(<<Entry(34, {"id"}, 0)>>)]]]

WriteBackends == RunBackends \cup {TwoDigitBackend}

InitWrite ==
    /\ variant \in {"archive", "src", "timelines_only"}
    /\ limit = 2
    /\ max_pages = 1
    /\ exclude_pulls = TRUE
    /\ InitLocals
    /\ files \in {[a \in Artifacts |-> NoFile], [a \in Artifacts |-> OldFile(a)]}
    /\ backend \in WriteBackends
    /\ token = <<>>
    /\ env_token = <<>>
    /\ repository = DefaultRepository
    /\ NoHistory
    /\ IdleOthers

\* One run on a disk on which a write may fail.
NextWrite ==
    \/ Next
    \/ FetchIssueTimelinesOnly
    \/ WriteCsvRaise

SpecWrite == InitWrite /\ [][NextWrite]_vars

(***************************************************************************)
(* One run of fetch_closed_gh_issues with its HTTP attempts counted,       *)
(* against an API that holds two issues at most and may fail any attempt.  *)
(* Every thread that can take a step takes one: the main thread and the    *)
(* workers keep running and every HTTP attempt ends with a response, an    *)
(* error or its timeout of 30 s.                                           *)
(***************************************************************************)
CountedBackends ==
    {[live |-> FALSE, flaky |-> TRUE, listing |-> Ok(l), later |-> Ok(<<>>),
      items |-> [k \in Kinds |-> [n \in 1..2 |-> Ok(CannedBody)]]] :
        l \in {<<>>, <<Issue(2)>>, <<Issue(1), Issue(2)>>, <<PullRequest(3), Issue(1)>>}}

InitCounted ==
    /\ variant = "archive"
    /\ limit \in 1..2
    /\ max_pages = 1
    /\ exclude_pulls = TRUE
    /\ InitLocals
    /\ files = [a \in Artifacts |-> NoFile]
    /\ backend \in CountedBackends
    /\ token = <<>>
    /\ env_token = <<>>
    /\ repository = DefaultRepository
    /\ sent = {}
    /\ paths = NoPaths
    /\ prev = <<>>
    /\ attempts = NoAttempts
    /\ IdleOthers

SpecCounted == InitCounted /\ [][Next]_vars /\ WF_vars(Next)

(***************************************************************************)
(* The extraction service: one request to POST /github/extract.            *)
(***************************************************************************)
\* The pipeline does not run; GITHUB_TOKEN is any of its values.
IdlePipelineAnyEnv ==
    /\ variant = "archive"
    /\ limit = 0
    /\ max_pages = 0
    /\ exclude_pulls = TRUE
    /\ InitLocals
    /\ files = [a \in Artifacts |-> NoFile]
    /\ backend = LiveBackend
    /\ token = <<>>
    /\ repository = DefaultRepository
    /\ NoHistory

InitService ==
    /\ env_token \in EnvTokens
    /\ client = NoClient
    /\ endpoint = [NoEndpoint EXCEPT !.pc = "start"]
    /\ db = EmptyDb
    /\ mapper = NoMapper
    /\ IdleHelpers
    /\ IdlePipelineAnyEnv

NextService ==
    \/ ExtractStart
    \/ ClientRequest
    \/ ClientResponse
    \/ ExtractFetched
    \/ CreateDataset
    \/ SavePrIssues

SpecService == InitService /\ [][NextService]_vars

\* fetch_pr_issue_mapping called with a token and any max_prs.
MaxPrsValues == {<<>>} \cup {<<n>> : n \in 0..MaxPrs}

InitMapping ==
    /\ \E m \in MaxPrsValues :
          mapper = [NoMapper EXCEPT !.pc = "request", !.max_prs = m]
    /\ IdleHelpers
    /\ IdleService
    /\ IdlePipeline

NextMapping ==
    \/ MapperRequest
    \/ MapperResponse

SpecMapping == InitMapping /\ [][NextMapping]_vars

(***************************************************************************)
(* Properties.                                                             *)
(***************************************************************************)
KindsOf(v) ==
    IF v = "archive" THEN Kinds
    ELSE IF v = "timelines_only" THEN {"timeline"} ELSE {"comments"}

\* The rows a future contributes to the merged list.
Contribution(kind, i) ==
    IF tasks[kind][i].state = "completed"
        THEN MergeOne(tasks[kind][i].result, futures[kind][i])
        ELSE <<>>

RECURSIVE Expected(_, _)
\* The merge of the first n futures.
Expected(kind, n) ==
    IF n = 0 THEN <<>> ELSE Expected(kind, n - 1) \o Contribution(kind, n)

\* The issue_number values of the rows of a table.
RowNumbers(t) == {t.rows[k].issue_number : k \in DOMAIN t.rows}

\* C1: the list returned by fetch_many_issues has at most limit elements; it is
\* the first limit elements of the collected list when more were collected.
C1_AtMostLimit ==
    /\ Len(issues) <= limit
    /\ pc = "fmi_done" =>
          /\ issues = SubSeq(collected, 1, Len(issues))
          /\ (Len(collected) >= limit => Len(issues) = limit)

C1_Witness ==
    /\ pc = "fmi_done"
    /\ limit > 0
    /\ Len(collected) > limit
    /\ Len(issues) = limit

\* C2: a fetch that failed on every attempt contributes no row and is logged,
\* every completed fetch contributes exactly its rows, and at the end of the
\* run an issue all of whose fetches failed is in the issues table and has no
\* row in the table of that fan-out.
C2_FailureIsolation ==
    /\ \A kind \in Kinds :
          pc = MergePc(kind) =>
             /\ merged = Expected(kind, cursor - 1)
             /\ \A i \in 1..(cursor - 1) :
                   (<<kind, i>> \in failures) <=> (tasks[kind][i].state = "failed")
    /\ pc = "done" =>
          \A kind \in KindsOf(variant) :
             \A i \in DOMAIN futures[kind] :
                LET X == futures[kind][i]
                IN  (\A j \in DOMAIN futures[kind] :
                        futures[kind][j] = X => <<kind, j>> \in failures)
                    => /\ <<X>> \in RowNumbers(files["issues"])
                       /\ <<X>> \notin RowNumbers(files[kind])
                       /\ <<X>> \notin RowNumbers(frames[kind])

C2_Witness ==
    /\ pc = "done"
    /\ futures["comments"] = <<1, 2>>
    /\ failures = {<<"comments", 1>>}
    /\ RowNumbers(files["issues"]) = {<<1>>, <<2>>}
    /\ Len(files["comments"].rows) = 2
    /\ RowNumbers(files["comments"]) = {<<2>>}

\* C3: every row of the comments and timeline tables carries the number of an
\* issue of the issues table of the same run, and each merged row carries the
\* number of the issue whose endpoint returned it, whatever issue_number the
\* payload had.
C3_Referential ==
    /\ \A kind \in Kinds :
          /\ RowNumbers(frames[kind]) \subseteq RowNumbers(frames["issues"])
          /\ RowNumbers(files[kind]) \subseteq RowNumbers(frames["issues"])
    /\ \A kind \in Kinds :
          pc = MergePc(kind) =>
             \A i \in 1..(cursor - 1) :
                tasks[kind][i].state = "completed" =>
                   \A k \in DOMAIN tasks[kind][i].result :
                      LET e == merged[Len(Expected(kind, i - 1)) + k]
                      IN  /\ "issue_number" \in e.keys
                          /\ e.issue_number = futures[kind][i]
                          /\ e.id = tasks[kind][i].result[k].id

C3_Witness ==
    /\ pc = "done"
    /\ variant = "archive"
    /\ \E k \in DOMAIN files["comments"].rows :
          files["comments"].rows[k] = [id |-> <<2>>, issue_number |-> <<2>>]
    /\ \E k \in DOMAIN files["timeline"].rows :
          files["timeline"].rows[k] = [id |-> <<2>>, issue_number |-> <<1>>]

\* C4: a per-item fetch failure never ends the run: no run is aborted by one,
\* and a run that is done has written every artifact with the rows of its frame.
C4_ItemFailuresAbsorbed ==
    /\ error # "item_fetch_failed"
    /\ pc = "aborted" => error \in {"page_fetch_failed", "KeyError"}
    /\ pc = "done" =>
          \A k \in DOMAIN WriteOrder(variant) :
             LET a == WriteOrder(variant)[k]
             IN  files[a].exists /\ files[a].rows = frames[a].rows

C4_Witness ==
    /\ pc = "done"
    /\ variant = "archive"
    /\ Len(issues) = 2
    /\ failures = Kinds \X {1, 2}
    /\ \A a \in Artifacts : files[a].exists

\* C5: once a listing-page task has failed, on the first page or on a later
\* one after items were collected, the run does nothing but abort with that
\* failure: nothing is returned to the caller of fetch_many_issues, no table
\* is built, no per-item task is submitted, no comments or timeline request
\* is sent and no artifact is written.
C5_PageFailureAborts ==
    page_fut.state = "failed" =>
       /\ pc \in {"fmi_wait", "aborted"}
       /\ pc = "aborted" => error = "page_fetch_failed"
       /\ issues = <<>>
       /\ \A a \in Artifacts : frames[a] = EmptyFrame
       /\ \A kind \in Kinds : tasks[kind] = <<>> /\ futures[kind] = <<>>
       /\ \A r \in sent : r.endpoint = "issues"
       /\ \A a \in Artifacts : paths[a] = <<>> /\ files[a] \in {NoFile, OldFile(a)}

\* The second page failed after the first had given 100 issues.
C5_Witness ==
    /\ pc = "aborted"
    /\ error = "page_fetch_failed"
    /\ page_fut.state = "failed"
    /\ page_reqs = 2
    /\ Len(collected) = PerPageCap
    /\ issues = <<>>
    /\ files["issues"] = OldFile("issues")

\* C6: after a raw page shorter than per_page = min(limit, 100) no further
\* page is requested.
C6_ShortPageStops ==
    \A k \in DOMAIN page_log :
       page_log[k] < PerPage(limit) => page_reqs = k

C6_Witness ==
    /\ pc = "fmi_done"
    /\ variant \in {"archive", "v3"}
    /\ limit >= 2
    /\ max_pages >= 2
    /\ page_log = <<limit - 1>>
    /\ page_reqs = 1
    /\ Len(issues) = limit - 1

\* C7: no element collected or returned by fetch_many_issues (and by
\* fetch_issues with exclude_pulls) has the key pull_request.
C7_NoPullRequests ==
    (variant \in {"archive", "src"} \/ exclude_pulls) =>
       /\ \A k \in DOMAIN issues : "pull_request" \notin issues[k].keys
       /\ \A k \in DOMAIN collected : "pull_request" \notin collected[k].keys

C7_Witness ==
    /\ pc = "fmi_done"
    /\ variant = "archive"
    /\ issues # <<>>
    /\ \E k \in DOMAIN page_fut.result : "pull_request" \in page_fut.result[k].keys

\* C8: at most 3 per-item fetches of a fan-out are executing at any moment.
C8_AtMostThreeRunning ==
    \A kind \in Kinds : Running(kind) <= MaxWorkers

\* Every task run the task runner holds.
AllTasks ==
    {page_fut} \cup UNION {{tasks[kind][i] : i \in DOMAIN tasks[kind]} : kind \in Kinds}

\* C9: a request uses at most retries retries (4 in archive, 3 in src), and
\* every non-2xx response leads to another attempt or to the failure, so no
\* task completes from a response that is not 2xx.
C9_Non2xxNeverCompletes ==
    \A t \in AllTasks :
       /\ t.retried <= Retries(variant)
       /\ t.state = "completed" => (200 <= t.status /\ t.status < 300)

\* C10: an issue without the key number yields no row and no per-item request,
\* and does not end the run with an exception.
C10_MalformedItemSkipped ==
    (\E k \in DOMAIN issues : "number" \notin issues[k].keys) =>
       /\ error # "KeyError"
       /\ <<>> \notin RowNumbers(frames["issues"])
       /\ \A kind \in Kinds :
             Len(tasks[kind]) <=
                Cardinality({k \in DOMAIN issues : "number" \in issues[k].keys})

\* C11: the DataFrame helpers never raise on an item whose optional nested
\* fields are absent, null or an object; they give a row in which a column
\* read from an absent or null field has its default (None, or 0 for totals).
C11_NestedFieldsNeverRaise ==
    norm.state # "none" =>
       /\ norm.state = "returned"
       /\ \A c \in DOMAIN NestedColumns(raw_item.fn) :
             LET col == NestedColumns(raw_item.fn)[c]
             IN  raw_item.nested[col.field] \in {"absent", "null"}
                    => norm.row[c] = col.default

\* The fixed column set of an artifact.
ColumnsOf(v, a) ==
    IF a = "issues" THEN IssueColumns(v)
    ELSE IF a = "comments" THEN CommentColumns
    ELSE TimelineColumns

\* The records of the collection an artifact is written from.
RecordsOf(a) == IF a = "issues" THEN Len(issues) ELSE Len(frames[a].rows)

\* C12: every artifact of a finished run has the header row of the fixed
\* column set of its record kind and one row per record, also when the
\* collection has no record.
C12_HeaderAndOneRowPerRecord ==
    pc = "done" =>
       \A k \in DOMAIN WriteOrder(variant) :
          LET a == WriteOrder(variant)[k]
          IN  /\ files[a].exists
              /\ files[a].columns = ColumnsOf(variant, a)
              /\ Len(files[a].rows) = RecordsOf(a)

\* C13 as stated: no two rows of the issues table have the same issue
\* number, also when the listing shifts between two page requests.
C13_UniqueIssueNumbers ==
    \A j, k \in DOMAIN frames["issues"].rows :
       j # k => frames["issues"].rows[j].issue_number
                   # frames["issues"].rows[k].issue_number

RECURSIVE ReceivedItems(_)
\* The items of the first n pages the listing answers with, in page order.
ReceivedItems(n) ==
    IF n = 0 THEN <<>>
    ELSE ReceivedItems(n - 1) \o (IF n = 1 THEN backend.listing.body ELSE backend.later.body)

\* C13 (amended): the issues table has one row per item returned by the
\* listing, in listing order, with the number of that item, and the items
\* returned are the first limit non-pull-request items of the pages
\* received, page after page: nothing is deduplicated, two rows share a
\* number exactly when the pages returned that number twice.
C13_OneRowPerListedItem ==
    /\ pc \notin {"fmi_loop", "fmi_wait", "fmi_return", "fmi_done", "aborted"} =>
          /\ Len(frames["issues"].rows) = Len(issues)
          /\ \A k \in DOMAIN issues :
                frames["issues"].rows[k].issue_number
                   = Get(issues[k], "number", issues[k].number)
    /\ pc = "fmi_done" =>
          issues = SliceTo(FilterPulls(ReceivedItems(Len(page_log))), limit)

\* The first page ended with issue 100 and the second page began with it:
\* the table has 101 rows, the last two with the number 100.
C13_Witness ==
    /\ pc = "comments_submit"
    /\ Len(page_log) = 0
    /\ backend.listing.body[PerPageCap] = Issue(PerPageCap)
    /\ backend.later = Ok(<<Issue(PerPageCap), Issue(PerPageCap + 1)>>)
    /\ Len(frames["issues"].rows) = PerPageCap + 1
    /\ frames["issues"].rows[PerPageCap].issue_number = <<PerPageCap>>
    /\ frames["issues"].rows[PerPageCap + 1].issue_number = <<PerPageCap>>

\* C14: the second of two runs against the same canned responses ends with
\* the row counts and the sets of issue numbers the first run ended with, in
\* the issues, comments and timeline tables, whatever the order in which the
\* workers of the fan-outs ran.
C14_SameTablesOnRerun ==
    pc = "done" /\ prev # <<>> => TableSummary(frames) = prev[1]

C14_Witness ==
    /\ pc = "done"
    /\ prev # <<>>
    /\ prev[1]["issues"].count = 2
    /\ prev[1]["comments"].count = 2
    /\ prev[1]["timeline"].numbers = {<<1>>, <<2>>}
    /\ failures = {<<"comments", 1>>}

\* The token a run has: the argument when it is a non-empty string, else the
\* environment variable GITHUB_TOKEN when that is set and non-empty.
GivenToken ==
    IF token \notin {<<>>, <<"">>} THEN token
    ELSE IF env_token \notin {<<>>, <<"">>} THEN env_token
    ELSE <<>>

\* C15: every request sent (listing page, comments, timeline) has the header
\* Authorization exactly when the run has a non-empty token, and then it
\* carries that token; the Accept header is always there.
C15_AuthorizationIffToken ==
    \A r \in sent :
       /\ r.headers.Accept # <<>>
       /\ (r.headers.Authorization # <<>>) <=> (GivenToken # <<>>)
       /\ GivenToken # <<>> => r.headers.Authorization = <<"token", GivenToken[1]>>

\* A run without any token that sent all its requests, and got to the end.
C15_Witness ==
    /\ pc = "done"
    /\ variant = "archive"
    /\ token = <<>>
    /\ env_token \in {<<>>, <<"">>}
    /\ {r.endpoint : r \in sent} = {"issues", "comments", "timeline"}
    /\ \A r \in sent : r.headers.Authorization = <<>>
    /\ Len(files["issues"].rows) = 2

\* C16: when a run is done, each artifact it writes holds exactly the rows
\* of the table of this run and no row an earlier run wrote.
C16_ArtifactsOverwritten ==
    pc = "done" =>
       \A k \in DOMAIN WriteOrder(variant) :
          LET a == WriteOrder(variant)[k]
          IN  /\ files[a].rows = frames[a].rows
              /\ \A j \in DOMAIN files[a].rows :
                    files[a].rows[j].issue_number # <<9>>

\* The second run is done, on a disk that held old rows before the first.
C16_Witness ==
    /\ pc = "done"
    /\ variant = "archive"
    /\ prev # <<>>
    /\ prev[1]["comments"].count = 4
    /\ \A a \in Artifacts : Len(files[a].rows) = prev[1][a].count
    /\ \A a \in Artifacts : paths[a] = ArtifactPath(repository, a)

Sanitized(ch) == IF ch \in {"/", "-", "."} THEN "_" ELSE ch

\* C17: an artifact is written to the repository identifier with every
\* "/", "-" and "." replaced by "_", followed by _issues.csv,
\* _issue_comments.csv or _issue_timeline.csv; the names of one run differ
\* from each other; nothing but the identifier enters the name.
C17_ArtifactNames ==
    /\ \A a \in Artifacts :
          paths[a] # <<>> =>
             /\ Len(paths[a]) = Len(repository) + 1
             /\ \A k \in 1..Len(repository) : paths[a][k] = Sanitized(repository[k])
             /\ paths[a][Len(repository) + 1] =
                   (CASE a = "issues" -> "_issues.csv"
                      [] a = "comments" -> "_issue_comments.csv"
                      [] a = "timeline" -> "_issue_timeline.csv")
    /\ \A a, b \in Artifacts :
          a # b /\ paths[a] # <<>> /\ paths[b] # <<>> => paths[a] # paths[b]

C17_Witness ==
    /\ pc = "done"
    /\ variant = "archive"
    /\ repository = <<"a", "-", "b", "/", "c", ".", "d">>
    /\ paths["issues"] = <<"a", "_", "b", "_", "c", "_", "d", "_issues.csv">>
    /\ paths["comments"] = <<"a", "_", "b", "_", "c", "_", "d", "_issue_comments.csv">>
    /\ paths["timeline"] = <<"a", "_", "b", "_", "c", "_", "d", "_issue_timeline.csv">>

\* C18: fetch_pr_issue_data sends one request per page, the first with a null
\* cursor and each later one with the endCursor of the page before it; it
\* sends none after the first page whose hasNextPage is not true, and what
\* it returns is the concatenation, in page order, of the records parsed
\* from the pages.
C18_OneRequestPerPage ==
    LET reqs == client.requests
        pgs == client.pages
    IN  /\ Len(reqs) = Len(pgs) + (IF client.pc \in {"wait", "raised"} THEN 1 ELSE 0)
        /\ reqs # <<>> => reqs[1] = <<>>
        /\ \A k \in 2..Len(reqs) :
              /\ pgs[k - 1].hasNextPage = <<TRUE>>
              /\ reqs[k] = pgs[k - 1].endCursor
        /\ client.pc = "request" /\ pgs # <<>> => pgs[Len(pgs)].hasNextPage = <<TRUE>>
        /\ client.pc = "returned" =>
              /\ pgs # <<>>
              /\ pgs[Len(pgs)].hasNextPage # <<TRUE>>
              /\ client.all_pr_issues =
                    Flatten([k \in 1..Len(pgs) |-> parse_graphql_response(pgs[k])])

C18_Witness ==
    /\ client.pc = "returned"
    /\ client.requests = << <<>>, <<"c1">> >>
    /\ Len(client.pages) = 2
    /\ client.pages[2].hasNextPage = <<FALSE>>
    /\ client.all_pr_issues =
          << [pr_number |-> 1, issue_number |-> 10],
             [pr_number |-> 2, issue_number |-> 10],
             [pr_number |-> 2, issue_number |-> 11] >>

\* The pull requests of the pages received that closed at least one issue.
ClosingPrs ==
    UNION {{mapper.pages[k].nodes[j].number :
               j \in {i \in 1..Len(mapper.pages[k].nodes) :
                         mapper.pages[k].nodes[i].closing # <<>>}} :
           k \in DOMAIN mapper.pages}

\* C19: with max_prs given, the rows returned by fetch_pr_issue_mapping are
\* those of at most max_prs distinct pull requests, each of which closed an
\* issue; pull requests that closed none have no row and are not counted.
C19_AtMostMaxPrs ==
    mapper.pc = "returned" /\ mapper.max_prs # <<>> =>
       LET prs == {mapper.out[k].pr_number : k \in DOMAIN mapper.out}
       IN  /\ Cardinality(prs) <= mapper.max_prs[1]
           /\ prs \subseteq ClosingPrs
           /\ mapper.processed_prs = prs

\* C20 as stated: the response is 500 with the error text when fetching
\* raised, and 200 with status success, a dataset_id and the number of
\* fetched records when fetching succeeded.
C20_FetchDecidesResponse ==
    endpoint.pc = "done" =>
       LET r == endpoint.response
       IN  /\ client.pc = "raised" =>
                 r.status = 500 /\ r.detail = <<"GitHub API error: ", client.error>>
           /\ client.pc = "returned" =>
                 /\ r.status = 200
                 /\ r.body # <<>>
                 /\ r.body[1].status = "success"
                 /\ r.body[1].pr_issues_count = Len(client.all_pr_issues)

\* C20 (amended): the response is 500 with the text of the exception in
\* detail exactly when creating the client, fetching or a database write
\* raised; otherwise it is 200 with status success, the id of a dataset
\* row that is in the database and the number of fetched records, which
\* is also the number of pr_issues rows stored under that id.
C20_ResponseOfExtract ==
    endpoint.pc = "done" =>
       LET r == endpoint.response
       IN  /\ r.status \in {200, 500}
           /\ (r.status = 500) <=> (endpoint.error # "none")
           /\ r.status = 500 =>
                 r.detail = <<"GitHub API error: ", endpoint.error>> /\ r.body = <<>>
           /\ client.pc = "raised" => r.status = 500 /\ endpoint.error = client.error
           /\ r.status = 200 =>
                 /\ client.pc = "returned"
                 /\ r.body[1].status = "success"
                 /\ r.body[1].pr_issues_count = Len(client.all_pr_issues)
                 /\ \E k \in DOMAIN db.datasets :
                       /\ db.datasets[k].id = r.body[1].dataset_id
                       /\ db.datasets[k].pr_count = r.body[1].pr_issues_count
                 /\ Cardinality({k \in DOMAIN db.pr_issues :
                                    db.pr_issues[k].dataset_id = r.body[1].dataset_id})
                       = r.body[1].pr_issues_count

\* A request that fetched no record and was answered with 200.
C20_Witness ==
    /\ endpoint.pc = "done"
    /\ endpoint.response.status = 200
    /\ endpoint.response.body[1].pr_issues_count = 0
    /\ Len(client.pages) = 2
    /\ Len(db.datasets) = 1

\* C21: fetch_many_issues stops before page max_pages only when the
\* accumulated count has reached limit, the last page was empty, or the last
\* page, as the API returned it, had fewer items than per_page.
C21_StopsOnlyOnLimitEmptyOrShortPage ==
    pc \in {"fmi_return", "fmi_done"} /\ page_reqs < max_pages =>
       \/ Len(collected) >= limit
       \/ page_log # <<>> /\ page_log[Len(page_log)] = 0
       \/ page_log # <<>> /\ page_log[Len(page_log)] < PerPage(limit)

\* A task run of the fan-out has reached a final state.
Joined(kind, i) == tasks[kind][i].state \in {"completed", "failed"}

\* C22 as stated: no row is in the merged list of a fan-out before every
\* worker of that fan-out has completed.
C22_NoRowBeforeJoin ==
    \A kind \in Kinds :
       pc = MergePc(kind) /\ merged # <<>> =>
          \A i \in DOMAIN tasks[kind] : Joined(kind, i)

\* A step in which a task run of the fan-out changes: a step of a worker.
WorkerStep(kind) ==
    \E i \in DOMAIN tasks[kind] :
       i \in DOMAIN tasks'[kind] /\ tasks'[kind][i] # tasks[kind][i]

\* C22 (amended): the merged list holds rows only while the main thread is in
\* the merge loop; the rows of the i-th submitted item are added only after
\* the task run of that item, and of every item before it, has completed or
\* failed, while the task runs of later items may still be pending or running;
\* the loop is left only when every task run has ended; and no step of a
\* worker changes the merged list or a table.
C22_MergeWaitsForEachWorker ==
    /\ [](/\ pc \notin {MergePc(kind) : kind \in Kinds} => merged = <<>>
          /\ \A kind \in Kinds :
                pc = MergePc(kind) =>
                   /\ cursor <= Len(tasks[kind]) + 1
                   /\ \A i \in 1..(cursor - 1) : Joined(kind, i)
                   /\ merged = Expected(kind, cursor - 1))
    /\ [][\A kind \in Kinds :
             WorkerStep(kind) => merged' = merged /\ frames' = frames /\ pc' = pc]_vars

\* Rows of the first item are merged while the worker of the second runs.
C22_Witness ==
    /\ pc = "timeline_merge"
    /\ cursor = 2
    /\ merged # <<>>
    /\ Len(tasks["timeline"]) = 2
    /\ tasks["timeline"][1].state = "completed"
    /\ tasks["timeline"][2].state = "running"
    /\ tasks["timeline"][2].retried = 1

\* C23: at most one listing-page request is outstanding, page p + 1 is
\* requested only after the response of page p has been processed, and the
\* n-th request of a run is the request for page n, with n <= max_pages: the
\* pages requested are 1, 2, ..., k, none skipped and none requested twice.
C23_SequentialPagination ==
    /\ [](/\ page_reqs <= max_pages
          /\ pc = "fmi_loop" =>
                /\ page = page_reqs + 1
                /\ Len(page_log) = page_reqs
                /\ page_fut.state \in {"none", "completed"}
          /\ pc = "fmi_wait" =>
                /\ page = page_reqs
                /\ Len(page_log) = page_reqs - 1
          /\ pc \in {"fmi_return", "fmi_done"} => page_fut.state \in {"none", "completed"})
    /\ [][/\ page_reqs' # page_reqs =>
                /\ page_reqs' = page_reqs + 1
                /\ page = page_reqs'
                /\ page' = page
                /\ page_fut.state \in {"none", "completed"}
                /\ Len(page_log) = page_reqs
                /\ page_fut'.state = "running"
          /\ page' # page =>
                /\ page_fut.state = "completed"
                /\ Len(page_log') = page
                /\ page' = page + 1]_vars

\* Two pages were requested, the second after the full first one.
C23_Witness ==
    /\ pc = "fmi_done"
    /\ variant = "archive"
    /\ max_pages = 2
    /\ page_reqs = 2
    /\ page = 2
    /\ page_log = <<PerPageCap, 1>>
    /\ Len(issues) = PerPageCap + 1

\* The number of rows of a table that carry the number X.
RowsOf(t, X) == Cardinality({k \in DOMAIN t.rows : t.rows[k].issue_number = <<X>>})

\* C24: in a finished run against canned answers, both fan-outs sent a request
\* for every issue, a fetch is logged as failed exactly when the answer to it
\* fails, and the rows an issue X has in the table of a fan-out are given by
\* the answer to X's fetch of that fan-out alone (none when it fails, one per
\* returned entry when it succeeds), whatever the answers of the other
\* fan-out and of the other issues were.
C24_FanoutsIndependent ==
    pc = "done" =>
       \A kind \in Kinds :
          /\ Len(futures[kind]) = Len(issues)
          /\ \A i \in DOMAIN futures[kind] :
                /\ futures[kind][i] = issues[i].number
                /\ (<<kind, i>> \in failures)
                      <=> TaskRaises(backend.items[kind][futures[kind][i]])
          /\ files[kind].rows = frames[kind].rows
          /\ \A X \in 1..2 :
                LET ans == backend.items[kind][X]
                    occ == Cardinality({i \in DOMAIN issues : issues[i].number = X})
                IN  RowsOf(frames[kind], X) =
                       IF TaskRaises(ans) THEN 0 ELSE occ * Len(ans.body)

\* Issue 1 has timeline rows and no comment rows, issue 2 the reverse.
C24_Witness ==
    /\ pc = "done"
    /\ Len(issues) = 2
    /\ failures = {<<"comments", 1>>, <<"timeline", 2>>}
    /\ RowsOf(files["comments"], 1) = 0
    /\ RowsOf(files["timeline"], 1) = 2
    /\ RowsOf(files["comments"], 2) = 2
    /\ RowsOf(files["timeline"], 2) = 0

\* C25: in fetch_gh_data_3 a listing-page fetch that exhausted its retries
\* ends the run with that failure: the run does not return normally, with an
\* empty table, after it.
C25_V3PageFailureSurfaces ==
    variant = "v3" /\ page_fut.state = "failed" =>
       /\ pc \in {"fmi_wait", "aborted"}
       /\ pc = "aborted" => error = "page_fetch_failed"

RECURSIVE CannedRows(_, _)
\* The rows the canned answers give for the first n issues: issue by issue in
\* the order of the list, and for each issue the entries of its answer in the
\* order of the body.
CannedRows(kind, n) ==
    IF n = 0 THEN <<>>
    ELSE LET num == issues[n].number
             ans == backend.items[kind][num]
         IN  CannedRows(kind, n - 1) \o
                (IF TaskRaises(ans) THEN <<>>
                 ELSE [k \in 1..Len(ans.body) |->
                         [id |-> <<ans.body[k].id>>, issue_number |-> <<num>>]])

\* C26: the merged list, and the table built from it, hold the rows grouped by
\* issue in the order the issues were submitted and, within an issue, in the
\* order of the body its endpoint returned, under every order in which the
\* task runs start, retry and end.
C26_RowsInSubmissionOrder ==
    /\ \A kind \in Kinds :
          pc = MergePc(kind) =>
             [k \in 1..Len(merged) |-> EntryRow(merged[k])] = CannedRows(kind, cursor - 1)
    /\ pc \in {"timeline_submit", "timeline_merge", "write", "done"} =>
          frames["comments"].rows = CannedRows("comments", Len(issues))
    /\ pc \in {"write", "done"} =>
          frames["timeline"].rows = CannedRows("timeline", Len(issues))

\* The comments table is built, and in the timeline fan-out the task run of
\* the second issue has ended while that of the first is in its first retry.
C26_Witness ==
    /\ pc = "timeline_merge"
    /\ cursor = 1
    /\ Len(tasks["timeline"]) = 2
    /\ tasks["timeline"][1].state = "running"
    /\ tasks["timeline"][1].retried = 1
    /\ tasks["timeline"][2].state = "completed"
    /\ [k \in 1..Len(frames["comments"].rows) |-> frames["comments"].rows[k].issue_number]
          = << <<1>>, <<1>>, <<2>>, <<2>> >>
    /\ [k \in 1..Len(frames["comments"].rows) |-> frames["comments"].rows[k].id]
          = << <<1>>, <<2>>, <<1>>, <<2>> >>

Ended == pc \in {"done", "aborted"}

\* C27: every run in which each HTTP attempt ends reaches its end, by
\* returning or by raising; it makes at most max_pages * (1 + retries)
\* attempts on the listing and at most 2 * N * (1 + retries) attempts on the
\* per-item endpoints of the N issues collected; and a fan-out is left, and
\* the artifacts are written, only after every task run submitted in it has
\* been joined.
C27_RunTerminates ==
    /\ <>Ended
    /\ [](attempts # <<>> =>
             /\ attempts[1].listing <= max_pages * (1 + Retries(variant))
             /\ attempts[1].items <= 2 * Len(issues) * (1 + Retries(variant)))
    /\ [](pc \in {"write", "done"} => \A kind \in Kinds : tasks[kind] = <<>>)
    /\ [][\A kind \in Kinds :
             pc = MergePc(kind) /\ pc' \notin {pc, "aborted"} =>
                /\ cursor = Len(futures[kind]) + 1
                /\ Len(tasks[kind]) = Len(futures[kind])
                /\ \A i \in DOMAIN tasks[kind] : Joined(kind, i)]_vars

\* A finished run that used every attempt it may use on the listing and on
\* the comments and timeline endpoints of its two issues.
C27_Witness ==
    /\ pc = "done"
    /\ Len(issues) = 2
    /\ attempts = <<[listing |-> 1 + ArchiveRetries, items |-> 4 * (1 + ArchiveRetries)]>>
    /\ failures = Kinds \X {1, 2}

\* The artifact is as it was before the run.
FromEarlierRun(a) == files[a] \in {NoFile, OldFile(a)}

\* The artifact was written by this run from the table of this run.
FromThisRun(a) == paths[a] # <<>> /\ files[a] = ToCsv(frames[a])

\* C28: when a run has ended, the artifacts of the repository are all from
\* this run or all as they were before it, and after a run that ended with a
\* failure they are as they were before it.
C28_ArtifactsOfOneRun ==
    pc \in {"done", "aborted"} =>
       LET arts == {WriteOrder(variant)[k] : k \in DOMAIN WriteOrder(variant)}
       IN  /\ \/ \A a \in arts : FromThisRun(a)
              \/ \A a \in arts : FromEarlierRun(a)
           /\ pc = "aborted" => \A a \in arts : FromEarlierRun(a)

\* C29: after a request that was answered with 500 the database holds no row
\* of that request, and every dataset row has as pr_count the number of
\* pr_issues rows stored under its id.
C29_DbUnchangedOn500 ==
    endpoint.pc = "done" =>
       /\ endpoint.response.status = 500 => db = EmptyDb
       /\ \A k \in DOMAIN db.datasets :
             db.datasets[k].pr_count =
                Cardinality({j \in DOMAIN db.pr_issues :
                                db.pr_issues[j].dataset_id = db.datasets[k].id})

\* C30: no cursor value is requested twice in one call of fetch_pr_issue_data,
\* so that a call cannot go round the same pages for ever: after a page whose
\* endCursor is null or was requested before, no further request is sent.
C30_NoCursorRequestedTwice ==
    /\ \A j, k \in DOMAIN client.requests :
          j # k => client.requests[j] # client.requests[k]
    /\ client.pc = "request" =>
          \A k \in DOMAIN client.requests : client.requests[k] # client.cursor
====
